---- MODULE Spec2Model ----
(***************************************************************************)
(* A model of the resource marshalling engine of the smb mgr module        *)
(* (src/pybind/mgr/smb/resourcelib.py): the tag registry, the encoder      *)
(* (to_simplified), the decoder (from_simplified) and the loader (load),   *)
(* run against the record classes of tests/test_resourcelib.py.            *)
(*                                                                         *)
(* Python values are tagged records:                                       *)
(*   [k |-> "none"]  [k |-> "str", s]  [k |-> "int", n]  [k |-> "bool", b] *)
(*   [k |-> "list", l]  [k |-> "dict", d]  [k |-> "obj"]                   *)
(*   [k |-> "enum", e, s]  [k |-> "inst", cls, f]                          *)
(* A call either returns, [ok |-> TRUE, v], or raises, [ok |-> FALSE, exc].*)
(***************************************************************************)
EXTENDS Integers, Sequences, FiniteSets, TLC

VARIABLES registry, rtype, last

vars == <<registry, rtype, last>>

(***************************************************************************)
(* Values                                                                  *)
(***************************************************************************)
None == [k |-> "none"]
VStr(s) == [k |-> "str", s |-> s]
VInt(n) == [k |-> "int", n |-> n]
VBool(b) == [k |-> "bool", b |-> b]
VList(l) == [k |-> "list", l |-> l]
VDict(d) == [k |-> "dict", d |-> d]
VObj == [k |-> "obj"]
VEnum(e, s) == [k |-> "enum", e |-> e, s |-> s]
VInst(c, f) == [k |-> "inst", cls |-> c, f |-> f]

EmptyMap == <<>>

Ok(v) == [ok |-> TRUE, v |-> v]
Raise(e) == [ok |-> FALSE, exc |-> e]

TypeError == [type |-> "TypeError"]
KeyError == [type |-> "KeyError"]
ValueError == [type |-> "ValueError"]
AssertionError == [type |-> "AssertionError"]
NameError == [type |-> "NameError"]
RecursionError == [type |-> "RecursionError"]
AttributeError == [type |-> "AttributeError"]
MissingFieldError(fname) == [type |-> "MissingFieldError", fname |-> fname]
InvalidFieldError(fname) == [type |-> "InvalidFieldError", fname |-> fname]
MissingResourceTypeError(data) == [type |-> "MissingResourceTypeError", data |-> data]
InvalidResourceTypeError(expected, actual) ==
    [type |-> "InvalidResourceTypeError", expected |-> expected, actual |-> actual]

\* except TypeError / except KeyError / except MissingFieldError
IsTypeError(r) == ~r.ok /\ r.exc.type = "TypeError"
IsKeyError(r) == ~r.ok /\ r.exc.type \in {"KeyError", "MissingFieldError"}
IsMissingFieldError(r) == ~r.ok /\ r.exc.type = "MissingFieldError"

\* Python truth value of a simplified value
Truthy(v) ==
    CASE v.k = "none" -> FALSE
      [] v.k = "str" -> v.s # ""
      [] v.k = "int" -> v.n # 0
      [] v.k = "bool" -> v.b
      [] v.k = "list" -> Len(v.l) > 0
      [] v.k = "dict" -> DOMAIN v.d # {}
      [] OTHER -> TRUE

\* isinstance(value, (str, int, float))
IsScalar(v) == v.k \in {"str", "int", "bool", "enum"}

\* hashable values can be looked up in a dict
Hashable(v) == v.k \notin {"list", "dict"}

(***************************************************************************)
(* Field shapes and options                                                *)
(***************************************************************************)
TStr == [t |-> "str"]
TInt == [t |-> "int"]
TEnum(e) == [t |-> "enum", e |-> e]
TList(x) == [t |-> "list", of |-> x]
TDict(kt, vt) == [t |-> "dict", kt |-> kt, vt |-> vt]
TOpt(x) == [t |-> "opt", of |-> x]
TCls(c) == [t |-> "cls", c |-> c]
TBool == [t |-> "bool"]
TAny == [t |-> "any"]

Extras == [embedded |-> FALSE, keep_none |-> FALSE, keep_false |-> TRUE, alt_keys |-> <<>>]

\* a field without a default value, and one with
Req(name, type, extras) ==
    [name |-> name, type |-> type, extras |-> extras, hasdef |-> FALSE, def |-> None]
Opt(name, type, extras, def) ==
    [name |-> name, type |-> type, extras |-> extras, hasdef |-> TRUE, def |-> def]

is_optional(ti) == ti.t = "opt"

unwrap(ti) ==
    CASE ti.t \in {"opt", "list"} -> ti.of
      [] ti.t = "dict" -> ti.kt
      [] OTHER -> ti

unwrap_optional(ti) == IF is_optional(ti) THEN unwrap(ti) ELSE ti

takes_list(ti) == ti.t = "list"
takes_dict(ti) == ti.t = "dict"

(***************************************************************************)
(* The record classes of tests/test_resourcelib.py                         *)
(***************************************************************************)
tclass1 ==
    << Req("foo", TStr, Extras),
       Req("bar", TInt, Extras),
       Req("baz", TStr, [Extras EXCEPT !.keep_false = FALSE]),
       Opt("quux", TOpt(TList(TInt)), Extras, None),
       Opt("womble", TOpt(TInt), [Extras EXCEPT !.keep_none = TRUE], None),
       Opt("tags", TOpt(TDict(TStr, TInt)), Extras, None) >>

tclass2 ==
    << Req("name", TStr, Extras),
       Req("xyz", TCls("tclass1"), Extras) >>

tclass3 ==
    << Req("artists", TList(TStr), Extras),
       Opt("kind", TStr, Extras, VStr("")) >>

ResOne ==
    << Req("zim", TStr, Extras),
       Opt("zam", TOpt(TStr), Extras, None),
       Opt("jam", TOpt(TCls("tclass2")), Extras, None) >>

ResTwo ==
    << Req("aaa", TStr, Extras),
       Req("bbb", TList(TCls("tclass1")), Extras),
       Req("ccc", TDict(TStr, TStr), Extras),
       Req("ddd", TCls("tclass3"), [Extras EXCEPT !.embedded = TRUE]) >>

\* the members of the enumeration _flavor
_flavor == {"vanilla", "strawberry", "cherry", ""}

ResThree ==
    << Req("one", TCls("ResOne"), Extras),
       Opt("two", TOpt(TCls("ResTwo")), Extras, None),
       Opt("flavor", TEnum("_flavor"), Extras, VEnum("_flavor", "")) >>

FakeOne == << Req("zzz", TInt, Extras) >>

\* A client class that is not one of the test module's: a resource that
\* embeds another resource. The decorators accept any class, so the classes
\* a client declares are inputs of the engine.
ResWrap ==
    << Req("label", TStr, Extras),
       Req("inner", TCls("ResOne"), [Extras EXCEPT !.embedded = TRUE]) >>

(***************************************************************************)
(* The record classes of resources.py                                      *)
(***************************************************************************)
_embedded == [Extras EXCEPT !.embedded = TRUE]
_quiet == [Extras EXCEPT !.keep_false = FALSE]
_alt_share_id == [Extras EXCEPT !.alt_keys = <<"share_id">>]

\* proto.Simplified = Dict[str, Any]
Simplified == TDict(TStr, TAny)

\* the members of the enumerations of the enums module, by value
CephFSStorageProvider == {"kcephfs", "samba-vfs"}
Intent == {"present", "removed"}
AuthMode == {"user", "active-directory"}
JoinSourceType == {"password", "http_uri", "resource"}
UserGroupSourceType == {"inline", "http_uri", "resource"}

CephFSStorage ==
    << Req("volume", TStr, Extras),
       Opt("path", TStr, Extras, VStr("/")),
       Opt("subvolumegroup", TStr, _quiet, VStr("")),
       Opt("subvolume", TStr, _quiet, VStr("")),
       Opt("provider", TEnum("CephFSStorageProvider"), Extras,
           VEnum("CephFSStorageProvider", "samba-vfs")) >>

ShareSettings ==
    << Req("name", TStr, _alt_share_id),
       Opt("readonly", TBool, Extras, VBool(FALSE)),
       Opt("browseable", TBool, Extras, VBool(TRUE)),
       Opt("cephfs", TOpt(TCls("CephFSStorage")), Extras, None) >>

Share ==
    << Req("cluster_id", TStr, Extras),
       Req("share_id", TStr, Extras),
       Opt("intent", TEnum("Intent"), Extras, VEnum("Intent", "present")),
       Opt("share", TOpt(TCls("ShareSettings")), _embedded, None) >>

JoinSource ==
    << Req("source_type", TEnum("JoinSourceType"), Extras),
       Opt("username", TStr, _quiet, VStr("")),
       Opt("password", TStr, _quiet, VStr("")),
       Opt("uri", TStr, _quiet, VStr("")),
       Opt("ref", TStr, _quiet, VStr("")) >>

UserGroupSource ==
    << Req("source_type", TEnum("UserGroupSourceType"), Extras),
       Req("users", TList(Simplified), Extras),
       Req("groups", TList(Simplified), Extras),
       Opt("uri", TStr, _quiet, VStr("")),
       Opt("ref", TStr, _quiet, VStr("")) >>

DomainSettings ==
    << Req("realm", TStr, Extras),
       Req("join_sources", TList(TCls("JoinSource")), Extras) >>

ClusterSettings ==
    << Req("auth_mode", TEnum("AuthMode"), Extras),
       Opt("domain_settings", TOpt(TCls("DomainSettings")), Extras, None),
       Opt("user_group_settings", TOpt(TList(TCls("UserGroupSource"))), Extras, None) >>

Cluster ==
    << Req("cluster_id", TStr, Extras),
       Opt("intent", TEnum("Intent"), Extras, VEnum("Intent", "present")),
       Opt("settings", TOpt(TCls("ClusterSettings")), _embedded, None) >>

Components == {"tclass1", "tclass2", "tclass3", "CephFSStorage", "ShareSettings",
               "JoinSource", "UserGroupSource", "DomainSettings", "ClusterSettings"}
Resources == {"ResOne", "ResTwo", "ResThree", "FakeOne", "ResWrap", "Share", "Cluster"}
Classes == Components \cup Resources

\* dataclasses.fields(cls)
fields(c) ==
    CASE c = "tclass1" -> tclass1
      [] c = "tclass2" -> tclass2
      [] c = "tclass3" -> tclass3
      [] c = "ResOne" -> ResOne
      [] c = "ResTwo" -> ResTwo
      [] c = "ResThree" -> ResThree
      [] c = "FakeOne" -> FakeOne
      [] c = "ResWrap" -> ResWrap
      [] c = "CephFSStorage" -> CephFSStorage
      [] c = "ShareSettings" -> ShareSettings
      [] c = "Share" -> Share
      [] c = "JoinSource" -> JoinSource
      [] c = "UserGroupSource" -> UserGroupSource
      [] c = "DomainSettings" -> DomainSettings
      [] c = "ClusterSettings" -> ClusterSettings
      [] c = "Cluster" -> Cluster

EnumMembers(e) ==
    CASE e = "_flavor" -> _flavor
      [] e = "CephFSStorageProvider" -> CephFSStorageProvider
      [] e = "Intent" -> Intent
      [] e = "AuthMode" -> AuthMode
      [] e = "JoinSourceType" -> JoinSourceType
      [] e = "UserGroupSourceType" -> UserGroupSourceType

(***************************************************************************)
(* Encoder                                                                 *)
(***************************************************************************)
\* getattr(obj, 'resource_type', None): the class attribute set by the
\* resource decorator; "" stands for no attribute
resource_type_of(c) == rtype[c]

\* an inclusion policy that drops every falsy value, keep_false or not
keeps_field_truthy(sv, extras) ==
    \/ Truthy(sv)
    \/ (sv = None /\ extras.keep_none)

\* the inclusion policy of a field that is not merged into its parent
keeps_field(sv, extras) ==
    \/ Truthy(sv)
    \/ (sv = None /\ extras.keep_none)
    \/ (sv # None /\ ~Truthy(sv) /\ extras.keep_false)

\* a loop body that writes a field under its first alt key when it has one
put_field_alt(result, fld, sv) ==
    IF fld.extras.embedded /\ sv.k = "dict" THEN sv.d @@ result
    ELSE IF ~keeps_field(sv, fld.extras) THEN result
    ELSE IF fld.extras.alt_keys # <<>> THEN (fld.extras.alt_keys[1] :> sv) @@ result
    ELSE (fld.name :> sv) @@ result

\* one iteration of the loop over the fields: result.update(sv) or
\* result[fld.name] = sv
put_field(result, fld, sv) ==
    IF fld.extras.embedded /\ sv.k = "dict"
    THEN sv.d @@ result
    ELSE IF keeps_field(sv, fld.extras)
         THEN (fld.name :> sv) @@ result
         ELSE result

\* one more element of a list comprehension: h and t are results, and the
\* first of them that raised is the result
Cons(h, t) ==
    IF ~h.ok THEN h ELSE IF ~t.ok THEN t ELSE Ok(VList(<<h.v>> \o t.v.l))

\* one more item of a dict comprehension
DictCons(kr, vr, rest) ==
    IF ~kr.ok THEN kr
    ELSE IF ~vr.ok THEN vr
    ELSE IF ~rest.ok THEN rest
    ELSE Ok(VDict((kr.v.s :> vr.v) @@ rest.v.d))

\* the dict d without its key k
Without(d, k) == [n \in DOMAIN d \ {k} |-> d[n]]

\* the loop body of _to_simplified applied to the result of _simplify_field
put_simplified(result, fld, sv) ==
    IF ~sv.ok THEN sv ELSE Ok(VDict(put_field(result, fld, sv.v)))

RECURSIVE _to_simplified(_), _simplify_field(_, _), _simplify_list(_, _)
RECURSIVE _simplify_dict(_, _, _), _simplify_item(_, _, _, _)
RECURSIVE _to_simplified_fields(_, _, _, _)

_simplify_field(type_info, obj) ==
    IF obj.k = "inst" THEN _to_simplified(obj)
    ELSE IF obj.k = "list" THEN
        IF ~takes_list(unwrap_optional(type_info)) THEN Raise(AssertionError)
        ELSE _simplify_list(unwrap(unwrap_optional(type_info)), obj.l)
    ELSE IF obj.k = "dict" THEN
        IF ~takes_dict(unwrap_optional(type_info)) THEN Raise(AssertionError)
        ELSE _simplify_dict(unwrap_optional(type_info).kt,
                            unwrap_optional(type_info).vt, obj.d)
    ELSE IF obj.k = "str" THEN Ok(VStr(obj.s))
    ELSE IF obj.k = "enum" THEN Ok(VStr(obj.s))
    ELSE IF obj.k \in {"int", "bool"} THEN Ok(obj)
    ELSE IF obj.k = "none" THEN
        IF is_optional(type_info) THEN Ok(None) ELSE Raise(AssertionError)
    ELSE Raise(TypeError)

\* [_simplify_field(childttype, v) for v in obj]
_simplify_list(childttype, l) ==
    IF l = <<>> THEN Ok(VList(<<>>))
    ELSE Cons(_simplify_field(childttype, Head(l)), _simplify_list(childttype, Tail(l)))

\* {_simplify_field(kt, k): _simplify_field(vt, v) for k, v in obj.items()}
_simplify_dict(kt, vt, d) ==
    IF DOMAIN d = {} THEN Ok(VDict(EmptyMap))
    ELSE _simplify_item(kt, vt, d, CHOOSE k \in DOMAIN d : TRUE)

_simplify_item(kt, vt, d, k) ==
    DictCons(_simplify_field(kt, VStr(k)), _simplify_field(vt, d[k]),
             _simplify_dict(kt, vt, Without(d, k)))

\* for fld in dataclasses.fields(obj), from the i-th field on; result is
\* the map built so far, or what a field raised
_to_simplified_fields(obj, flds, i, result) ==
    IF ~result.ok \/ i > Len(flds) THEN result
    ELSE _to_simplified_fields(
             obj, flds, i + 1,
             put_simplified(result.v.d, flds[i],
                            _simplify_field(flds[i].type, obj.f[flds[i].name])))

\* result = {}; if rtype is not None: result['resource_type'] = rtype
_to_simplified_start(rt) ==
    IF rt # "" THEN ("resource_type" :> VStr(rt)) ELSE EmptyMap

_to_simplified(obj) ==
    _to_simplified_fields(obj, fields(obj.cls), 1,
                          Ok(VDict(_to_simplified_start(resource_type_of(obj.cls)))))

to_simplified(obj) == _to_simplified(obj)

(***************************************************************************)
(* Source cursor                                                           *)
(***************************************************************************)
\* _Source.__getitem__: self.data[key]
source_getitem(data, key) ==
    IF data.k # "dict" THEN Raise(TypeError)
    ELSE IF key \in DOMAIN data.d THEN Ok(data.d[key])
    ELSE Raise(KeyError)

\* _Source.get: the first of keys that is present, else the default, else
\* KeyError
RECURSIVE source_get(_, _, _, _)
source_get(data, keys, hasdefault, default) ==
    IF keys = <<>>
    THEN IF hasdefault THEN Ok(default) ELSE Raise(KeyError)
    ELSE LET r == source_getitem(data, Head(keys))
         IN IF IsKeyError(r) THEN source_get(data, Tail(keys), hasdefault, default)
            ELSE r

\* a get_or_borrow that never borrows
source_get_or_borrow_strict(data, keys) == source_get(data, keys, FALSE, None)

\* _Source.get_or_borrow: as get, and the cursor itself when no key is present
source_get_or_borrow(data, keys) ==
    LET r == source_get(data, keys, FALSE, None)
    IN IF IsKeyError(r) THEN Ok(data) ELSE r

(***************************************************************************)
(* Decoder                                                                 *)
(***************************************************************************)
\* a lookup that knows the primary name only
lookup_keys_primary(fld) == <<fld.name>>

\* a lookup that tries the alt keys before the primary name
lookup_keys_alt_first(fld) == fld.extras.alt_keys \o <<fld.name>>

\* the keys a field is looked up under: fname, *(extras.alt_keys or [])
lookup_keys(fld) == <<fld.name>> \o fld.extras.alt_keys

\* s.split('/') of the strings of the model that hold a '/'
SlashSplit ==
    ("cool/beans" :> <<"cool", "beans">>) @@ ("/" :> <<"", "">>)
    @@ ("g/h" :> <<"g", "h">>) @@ ("a/b/c" :> <<"a", "b", "c">>)
    @@ ("/x" :> <<"", "x">>)

\* '/' in v
in_slash(v) ==
    CASE v.k = "str" -> Ok(v.s \in DOMAIN SlashSplit)
      [] v.k = "list" -> Ok(\E i \in 1..Len(v.l) : v.l[i] = VStr("/"))
      [] v.k = "dict" -> Ok("/" \in DOMAIN v.d)
      [] OTHER -> Raise(TypeError)

\* v == member, for a member of an enumeration that is also a str
is_member(v, s) == v.k \in {"str", "enum"} /\ v.s = s

\* CephFSStorage.__post_init__
CephFSStorage_post_init(obj) ==
    IF ~in_slash(obj.f.subvolume).ok THEN in_slash(obj.f.subvolume)
    ELSE IF in_slash(obj.f.subvolume).v /\ ~Truthy(obj.f.subvolumegroup) THEN
        IF obj.f.subvolume.k # "str" THEN Raise(AttributeError)
        ELSE IF Len(SlashSplit[obj.f.subvolume.s]) # 2 THEN Raise(ValueError)
        ELSE Ok([obj EXCEPT !.f.subvolumegroup = VStr(SlashSplit[obj.f.subvolume.s][1]),
                            !.f.subvolume = VStr(SlashSplit[obj.f.subvolume.s][2])])
    ELSE Ok(obj)

\* Share.__post_init__
Share_post_init(obj) ==
    IF /\ is_member(obj.f.intent, "removed")
       /\ Truthy(obj.f.share)
       /\ ~Truthy(obj.f.share.f.cephfs)
    THEN Ok([obj EXCEPT !.f.share = None])
    ELSE Ok(obj)

\* the __post_init__ hook of a dataclass
post_init(obj) ==
    CASE obj.cls = "CephFSStorage" -> CephFSStorage_post_init(obj)
      [] obj.cls = "Share" -> Share_post_init(obj)
      [] OTHER -> Ok(obj)

\* type_info.target_type(**kw): the dataclass constructor
construct(c, kw) ==
    IF \E i \in 1..Len(fields(c)) :
           ~fields(c)[i].hasdef /\ fields(c)[i].name \notin DOMAIN kw
    THEN Raise(TypeError)
    ELSE post_init(
             VInst(c, [n \in {fields(c)[i].name : i \in 1..Len(fields(c))} |->
                        IF n \in DOMAIN kw THEN kw[n]
                        ELSE (CHOOSE fld \in {fields(c)[i] : i \in 1..Len(fields(c))} :
                                  fld.name = n).def]))

\* CephFSStorage.validate
CephFSStorage_validate(obj) ==
    IF ~Truthy(obj.f.volume) THEN Raise(ValueError)
    ELSE IF ~in_slash(obj.f.subvolumegroup).ok THEN in_slash(obj.f.subvolumegroup)
    ELSE IF in_slash(obj.f.subvolumegroup).v THEN Raise(ValueError)
    ELSE IF ~in_slash(obj.f.subvolume).ok THEN in_slash(obj.f.subvolume)
    ELSE IF in_slash(obj.f.subvolume).v THEN Raise(ValueError)
    ELSE Ok(obj)

\* Share.validate
Share_validate(obj) ==
    IF ~Truthy(obj.f.share_id) THEN Raise(ValueError)
    ELSE IF ~Truthy(obj.f.share) /\ is_member(obj.f.intent, "present")
    THEN Raise(ValueError)
    ELSE Ok(obj)

\* ClusterSettings.validate
ClusterSettings_validate(obj) ==
    IF /\ is_member(obj.f.auth_mode, "active-directory")
       /\ (~Truthy(obj.f.domain_settings) \/ Truthy(obj.f.user_group_settings))
    THEN Raise(ValueError)
    ELSE IF /\ is_member(obj.f.auth_mode, "user")
            /\ (~Truthy(obj.f.user_group_settings) \/ Truthy(obj.f.domain_settings))
    THEN Raise(ValueError)
    ELSE Ok(obj)

\* the validate hook of a class, for the classes that define one
validate(obj) ==
    CASE obj.cls = "CephFSStorage" -> CephFSStorage_validate(obj)
      [] obj.cls = "Share" -> Share_validate(obj)
      [] obj.cls = "ClusterSettings" -> ClusterSettings_validate(obj)
      [] OTHER -> Ok(obj)

_from_scalar(type_info, value, optional) ==
    IF value = None /\ (optional \/ is_optional(type_info)) THEN Ok(None)
    ELSE IF type_info.t \in {"list", "dict", "opt"} THEN Raise(TypeError)
    ELSE IF type_info.t = "enum" THEN
        IF value.k \in {"str", "enum"} /\ value.s \in EnumMembers(type_info.e)
        THEN Ok(VEnum(type_info.e, value.s))
        ELSE Raise(ValueError)
    ELSE IF IsScalar(value) THEN Ok(value)
    ELSE Raise(TypeError)

\* a check that lets every map pass
_assert_resource_type_none(type_info, data) == Ok(None)

_assert_resource_type(type_info, data) ==
    LET expected_rt == resource_type_of(type_info.c)
    IN IF expected_rt = "" THEN Ok(None)
       ELSE LET cur == source_getitem(data, "resource_type")
            IN IF IsKeyError(cur) THEN Raise(MissingResourceTypeError(data))
               ELSE IF ~cur.ok THEN cur
               ELSE IF VStr(expected_rt) # cur.v
                    THEN Raise(InvalidResourceTypeError(expected_rt, cur.v))
                    ELSE Ok(None)

\* a lookup that gives an Optional field no default
field_source_required(fld, data) ==
    IF fld.extras.embedded
    THEN source_get_or_borrow(data, lookup_keys(fld))
    ELSE IF IsKeyError(source_get(data, lookup_keys(fld), FALSE, None))
         THEN Raise(MissingFieldError(fld.name))
         ELSE source_get(data, lookup_keys(fld), FALSE, None)

\* source.get(...) or source.get_or_borrow(...) of a field, a KeyError of
\* get being raised as MissingFieldError
field_source(fld, data) ==
    IF fld.extras.embedded
    THEN source_get_or_borrow(data, lookup_keys(fld))
    ELSE IF IsKeyError(source_get(data, lookup_keys(fld), is_optional(fld.type), None))
         THEN Raise(MissingFieldError(fld.name))
         ELSE source_get(data, lookup_keys(fld), is_optional(fld.type), None)

\* except TypeError around the nested decode: an optional embedded object is
\* taken as absent
swallow(fld, r) ==
    IF IsTypeError(r) /\ is_optional(fld.type) /\ fld.extras.embedded THEN Ok(None) ELSE r

\* except TypeError: raise InvalidFieldError(fname)
invalid_field(fld, r) ==
    IF IsTypeError(r) THEN Raise(InvalidFieldError(fld.name)) ELSE r

\* kw[fld.name] = ...; except MissingFieldError: pass
put_kw(kw, fld, r) ==
    IF IsMissingFieldError(r) THEN Ok(kw)
    ELSE IF ~r.ok THEN r
    ELSE Ok((fld.name :> r.v) @@ kw)

\* validate = getattr(obj, 'validate', None); if validate: validate()
validated(obj) == IF ~obj.ok THEN obj ELSE validate(obj.v)

\* obj = type_info.target_type(**kw), kw being what the loop over the fields
\* left or raised
new_object(c, kw) == IF ~kw.ok THEN kw ELSE validated(construct(c, kw.v))

RECURSIVE _from_object(_, _), _from_asserted(_, _, _), _from_object_fields(_, _, _, _)
RECURSIVE _from_object_field(_, _), _from_target(_, _, _)
RECURSIVE _from_list(_, _), _from_dict(_, _, _), _from_item(_, _, _, _)

_from_object(type_info, data) ==
    IF type_info.t # "cls" THEN _from_scalar(type_info, data, FALSE)
    ELSE _from_asserted(type_info, data, _assert_resource_type(type_info, data))

\* a decode that rejects a map with a key that is no field of the class
_from_asserted_strict(type_info, data, a) ==
    IF IsTypeError(a) THEN _from_scalar(type_info, data, FALSE)
    ELSE IF ~a.ok THEN a
    ELSE IF /\ data.k = "dict"
            /\ \E k \in DOMAIN data.d \ {"resource_type"} :
                  \A i \in 1..Len(fields(type_info.c)) : fields(type_info.c)[i].name # k
    THEN Raise(TypeError)
    ELSE new_object(type_info.c,
                    _from_object_fields(fields(type_info.c), data, 1, Ok(EmptyMap)))

\* the body of _from_object after the try block, a being what
\* _assert_resource_type returned or raised
_from_asserted(type_info, data, a) ==
    IF IsTypeError(a) THEN _from_scalar(type_info, data, FALSE)
    ELSE IF ~a.ok THEN a
    ELSE new_object(type_info.c,
                    _from_object_fields(fields(type_info.c), data, 1, Ok(EmptyMap)))

\* for fld in fields: kw[fld.name] = ..., from the i-th field on
_from_object_fields(flds, data, i, kw) ==
    IF ~kw.ok \/ i > Len(flds) THEN kw
    ELSE _from_object_fields(flds, data, i + 1,
                             put_kw(kw.v, flds[i], _from_object_field(flds[i], data)))

_from_object_field(fld, data) == _from_target(fld, data, field_source(fld, data))

\* the body of _from_object_field once the field's data is chosen
_from_target(fld, data, tgt) ==
    LET optional == is_optional(fld.type)
        innert == unwrap_optional(fld.type)
    IN IF ~tgt.ok THEN tgt
       ELSE IF tgt.v = None /\ optional THEN Ok(None)
       ELSE IF innert.t = "cls" /\ data # None THEN
           swallow(fld, _from_object(innert, tgt.v))
       ELSE IF takes_list(innert) THEN
           IF tgt.v.k # "list" THEN Raise(AssertionError)
           ELSE _from_list(unwrap(innert), tgt.v.l)
       ELSE IF takes_dict(innert) THEN
           IF tgt.v.k # "dict" THEN Raise(AssertionError)
           ELSE _from_dict(innert.kt, innert.vt, tgt.v.d)
       ELSE invalid_field(fld, _from_scalar(innert, tgt.v, optional))

\* [_from_object(innert.unwrap(), sv) for sv in tgt.contents()]
_from_list(elemt, l) ==
    IF l = <<>> THEN Ok(VList(<<>>))
    ELSE Cons(_from_object(elemt, Head(l)), _from_list(elemt, Tail(l)))

\* {_from_scalar(kt, sk): _from_object(vt, sv) for sk, sv in tgt.dict_contents()}
_from_dict(kt, vt, d) ==
    IF DOMAIN d = {} THEN Ok(VDict(EmptyMap))
    ELSE _from_item(kt, vt, d, CHOOSE k \in DOMAIN d : TRUE)

_from_item(kt, vt, d, k) ==
    DictCons(_from_scalar(kt, VStr(k), FALSE), _from_object(vt, d[k]),
             _from_dict(kt, vt, Without(d, k)))

from_simplified(cls, data) == _from_object(TCls(cls), data)

(***************************************************************************)
(* Registry and loader                                                     *)
(***************************************************************************)
get_resource(resource_name) ==
    IF ~Hashable(resource_name) THEN Raise(TypeError)
    ELSE IF resource_name.k = "str" /\ resource_name.s \in DOMAIN registry
    THEN Ok(registry[resource_name.s])
    ELSE Raise(InvalidResourceTypeError("", resource_name))

\* a chain that puts the instances of a later element first
chain_reversed(acc, more) == more \o acc

\* list(chain.from_iterable(...)): the instances of one more element
chain(acc, more) == acc \o more

\* a chain that leaves out an element whose loading raised
chained_partial(acc, r) ==
    IF ~r.ok THEN Ok(VList(acc)) ELSE Ok(VList(chain(acc, r.v.l)))

\* the instances of one more element appended, or what loading it raised
chained(acc, r) == IF ~r.ok THEN r ELSE Ok(VList(chain(acc, r.v.l)))

\* return [rcls.from_simplified(data)]
listed(obj) == IF ~obj.ok THEN obj ELSE Ok(VList(<<obj.v>>))

RECURSIVE load(_), load_each(_, _), load_object(_, _)

\* list(chain.from_iterable(load(v) for v in data)), acc holding the
\* instances of the elements already loaded, or what one of them raised
load_each(l, acc) ==
    IF ~acc.ok \/ l = <<>> THEN acc
    ELSE load_each(Tail(l), chained(acc.v.l, load(Head(l))))

\* rcls = get_resource(data['resource_type']); rcls.from_simplified(data)
load_object(data, rcls) ==
    IF ~rcls.ok THEN rcls ELSE listed(from_simplified(rcls.v, data))

\* a load that takes a map with no resource_type for an empty envelope
load_untagged(data) ==
    IF data.k # "dict" THEN
        IF data.k = "list" THEN load_each(data.l, Ok(VList(<<>>)))
        ELSE IF data.k = "str" THEN
            IF data.s = "" THEN Ok(VList(<<>>)) ELSE Raise(RecursionError)
        ELSE Raise(TypeError)
    ELSE IF "resource_type" \notin DOMAIN data.d THEN
        IF "resources" \notin DOMAIN data.d THEN Ok(VList(<<>>))
        ELSE IF data.d["resources"].k # "list" THEN Raise(NameError)
        ELSE load_each(data.d["resources"].l, Ok(VList(<<>>)))
    ELSE load_object(data, get_resource(data.d["resource_type"]))

load(data) ==
    IF data.k # "dict" THEN
        IF data.k = "list" THEN load_each(data.l, Ok(VList(<<>>)))
        ELSE IF data.k = "str" THEN
            IF data.s = "" THEN Ok(VList(<<>>)) ELSE Raise(RecursionError)
        ELSE Raise(TypeError)
    ELSE IF "resource_type" \notin DOMAIN data.d /\ "resources" \in DOMAIN data.d THEN
        IF data.d["resources"].k # "list" THEN Raise(NameError)
        ELSE load_each(data.d["resources"].l, Ok(VList(<<>>)))
    ELSE IF "resource_type" \notin DOMAIN data.d THEN Raise(MissingResourceTypeError(data))
    ELSE load_object(data, get_resource(data.d["resource_type"]))

(***************************************************************************)
(* Inputs: bounded sets of instances and of simplified data                *)
(***************************************************************************)
MaxInt == 1
MaxLen == 1
MaxBatch == 2

\* the sequences over S of length at most n
SeqsUpTo(S, n) == UNION {[1..m -> S] : m \in 0..n}

\* the falsy int and the largest one
Ints == {VInt(0), VInt(MaxInt)}
IntLists == {VList(l) : l \in SeqsUpTo({VInt(MaxInt)}, MaxLen)}

\* every combination of the field values of a tclass1
T1All ==
    {VInst("tclass1", [foo |-> foo, bar |-> bar, baz |-> baz, quux |-> quux,
                       womble |-> womble, tags |-> tags]) :
        foo \in {VStr(""), VStr("a")}, bar \in Ints, baz \in {VStr(""), VStr("b")},
        quux \in {None} \cup IntLists, womble \in {None} \cup Ints,
        tags \in {None, VDict(EmptyMap), VDict("red" :> VInt(MaxInt))}}

\* the tclass1 values used inside other instances
T1Some ==
    {VInst("tclass1", [foo |-> VStr("a"), bar |-> VInt(MaxInt), baz |-> baz,
                       quux |-> None, womble |-> womble, tags |-> None]) :
        baz \in {VStr(""), VStr("b")}, womble \in {None, VInt(MaxInt)}}

T2All == {VInst("tclass2", [name |-> VStr("n"), xyz |-> xyz]) : xyz \in T1Some}

T3All ==
    {VInst("tclass3", [artists |-> VList(l), kind |-> kind]) :
        l \in SeqsUpTo({VStr(""), VStr("me")}, MaxLen), kind \in {VStr(""), VStr("k")}}

R1All ==
    {VInst("ResOne", [zim |-> zim, zam |-> zam, jam |-> jam]) :
        zim \in {VStr(""), VStr("z")}, zam \in {None, VStr(""), VStr("y")},
        jam \in {None} \cup T2All}

R1Some ==
    {VInst("ResOne", [zim |-> VStr("z"), zam |-> zam, jam |-> None]) :
        zam \in {None, VStr("y")}}

R2All ==
    {VInst("ResTwo", [aaa |-> VStr("a"), bbb |-> VList(l), ccc |-> ccc, ddd |-> ddd]) :
        l \in SeqsUpTo(T1Some, MaxLen),
        ccc \in {VDict(EmptyMap), VDict("cow" :> VStr("moo"))},
        ddd \in T3All}

R2Some ==
    {VInst("ResTwo", [aaa |-> VStr("a"), bbb |-> VList(<<>>), ccc |-> VDict(EmptyMap),
                      ddd |-> ddd]) :
        ddd \in {VInst("tclass3", [artists |-> VList(<<VStr("me")>>), kind |-> VStr("")])}}

R3All ==
    {VInst("ResThree", [one |-> one, two |-> two, flavor |-> VEnum("_flavor", fl)]) :
        one \in R1Some, two \in {None} \cup R2Some, fl \in {"", "strawberry"}}

F1All == {VInst("FakeOne", [zzz |-> n]) : n \in Ints}

RWAll == {VInst("ResWrap", [label |-> VStr("w"), inner |-> inner]) : inner \in R1Some}

Instances == T1All \cup T2All \cup T3All \cup R1All \cup R2All \cup R3All \cup F1All \cup RWAll

\* simplified maps given to load, after the data of test_load and
\* test_load_error
Map1(k1, v1) == VDict(k1 :> v1)
Map2(k1, v1, k2, v2) == VDict(k1 :> v1 @@ k2 :> v2)
Map3(k1, v1, k2, v2, k3, v3) == VDict(k1 :> v1 @@ k2 :> v2 @@ k3 :> v3)

DataOne1 == Map2("resource_type", VStr("test.res.one"), "zim", VStr("zoom"))
DataOne2 ==
    Map3("resource_type", VStr("test.res.one"), "zim", VStr("zoinks"), "zam", VStr("zola"))
DataTwo ==
    VDict("resource_type" :> VStr("test.res.two") @@ "aaa" :> VStr("alpha")
          @@ "bbb" :> VList(<<>>) @@ "ccc" :> Map1("delta", VStr("flyer"))
          @@ "artists" :> VList(<<VStr("country")>>) @@ "kind" :> VStr(""))
DataThree ==
    Map3("resource_type", VStr("test.res.three"), "one", DataOne1,
         "flavor", VStr("strawberry"))
DataNoType == Map2("zim", VStr("aaa"), "zam", VStr("bbb"))
DataFred == Map3("resource_type", VStr("fred"), "zim", VStr("aaa"), "zam", VStr("bbb"))
DataNoZim == Map1("resource_type", VStr("test.res.one"))
DataJunk ==
    Map2("resource_type", VStr("test.res.three"),
         "one", Map3("resource_type", VStr("test.res.one"), "zim", VStr("imok"),
                     "zam", VObj))

\* a ResThree whose nested ResOne has no resource_type, and one whose nested
\* ResOne has another
DataSubMissing == Map2("resource_type", VStr("test.res.three"), "one", VDict(EmptyMap))
DataSubWrong ==
    Map2("resource_type", VStr("test.res.three"),
         "one", Map3("resource_type", VStr("test.foo.flub"), "zim", VStr("aaa"),
                     "zam", VStr("bbb")))

\* a ResThree whose one is a string
DataSubStr == Map2("resource_type", VStr("test.res.three"), "one", VStr("junk"))

\* a ResThree whose flavor is no member of _flavor
DataBadFlavor ==
    Map3("resource_type", VStr("test.res.three"), "one", DataOne1,
         "flavor", VStr("durian"))

\* values of resource_type that no registration binds
UnboundTypes == {VStr("fred"), VStr(""), None, VInt(MaxInt), VBool(TRUE),
                 VList(<<VStr("test.res.one")>>), Map1("test.res.one", VStr("x"))}

\* maps with neither a resource_type nor a resources key
Untyped == {VDict(EmptyMap), DataNoType, Map1("foo", VInt(1)),
            Map1("resource", VStr("test.res.one"))}

Envelope(l) == Map1("resources", VList(l))

BatchItems == {DataOne1, DataOne2, DataTwo, DataNoType, DataFred, DataNoZim}

NestedItems ==
    {DataOne1, VList(<<>>), VList(<<DataOne2>>), Envelope(<<DataTwo, DataOne1>>),
     VList(<<DataOne1, DataNoType>>), Envelope(<<VList(<<DataOne2>>)>>)}

LoadInputs ==
    {DataThree, DataJunk, DataSubMissing, DataSubWrong, DataBadFlavor, DataSubStr}
    \cup {Map2("resource_type", t, "zim", VStr("zoom")) : t \in UnboundTypes}
    \cup Untyped
    \cup {VList(l) : l \in SeqsUpTo(BatchItems, MaxBatch)}
    \cup {Envelope(l) : l \in SeqsUpTo(BatchItems, MaxBatch)}
    \cup {VList(l) : l \in SeqsUpTo(NestedItems, MaxBatch)}
    \cup {Map1("resources", VInt(5)), Map1("resources", None),
          Map2("resources", VList(<<DataOne1>>), "foo", VInt(1)),
          Map3("resources", VList(<<DataOne2>>), "resource_type", VStr("test.res.one"),
               "zim", VStr("zoom"))}
    \cup {VStr(""), VStr("abc"), VInt(5), None}

\* (class, data) pairs given to from_simplified, after test_from_simplified
DecodeInputs ==
    { <<"tclass1", Map3("foo", VStr("zowie"), "bar", VInt(1), "baz", VStr("fickle"))>>,
      <<"tclass1", Map3("foo", VStr("zowie"), "bar", VInt(1), "baz", VStr(""))>>,
      <<"tclass1", Map2("foo", VStr("zowie"), "bar", VInt(1))>>,
      <<"ResOne", DataOne1>>,
      <<"ResOne", DataNoType>>,
      <<"ResOne", DataFred>>,
      <<"ResOne", Map3("resource_type", VStr("test.res.one"), "zim", VStr("imok"),
                       "zam", VObj)>>,
      <<"tclass1", Map3("foo", VStr("zowie"), "bar", VStr("one"), "baz", VStr("b"))>>,
      <<"tclass1", Map3("foo", VList(<<VStr("zowie")>>), "bar", VInt(1), "baz", VStr("b"))>>,
      <<"ResThree", DataBadFlavor>>,
      <<"ResThree", DataThree>>,
      <<"ResThree", DataSubMissing>>,
      <<"ResThree", DataSubWrong>>,
      <<"ResThree", DataSubStr>>,
      <<"ResThree", Map1("one", DataOne1)>>,
      <<"ResTwo", DataTwo>>,
      <<"ResTwo", VDict("resource_type" :> VStr("test.res.two") @@ "aaa" :> VStr("x")
                        @@ "bbb" :> VList(<<>>) @@ "ccc" :> VDict(EmptyMap)
                        @@ "ddd" :> Map1("artists", VList(<<VStr("city")>>)))>> }

(***************************************************************************)
(* The state machine                                                       *)
(***************************************************************************)
Idle == [op |-> "idle"]

\* the (tag, class) pairs the resource decorator is applied to: the test
\* module's own, the reuse of a tag by FakeOne, and the client class
RegPairs ==
    { <<"test.res.one", "ResOne">>, <<"test.res.two", "ResTwo">>,
      <<"test.res.three", "ResThree">>, <<"test.res.one", "FakeOne">>,
      <<"test.res.wrap", "ResWrap">> }

\* the classes the annotations of a class refer to
Deps(c) ==
    CASE c = "ResThree" -> {"ResOne", "ResTwo"}
      [] c = "ResWrap" -> {"ResOne"}
      [] OTHER -> {}

\* a class exists once its decorator has run; the components are declared
\* before the resources
Defined(c) == c \in Components \/ rtype[c] # ""

\* _resourceclass: cls.resource_type = ResourceType(resource_name)
_resourceclass(resource_name, cls) ==
    IF resource_name # "" THEN [rtype EXCEPT ![cls] = resource_name] ELSE rtype

\* a decorator that binds the tag to the class whatever the registry holds
resource_rebinds(resource_name, cls) ==
    [registry |-> (resource_name :> cls) @@ registry, ret |-> Ok(VStr(cls))]

\* the decorator of resource(resource_name): the registry it leaves and
\* what it returns or raises
resource(resource_name, cls) ==
    IF resource_name \in DOMAIN registry
    THEN [registry |-> registry, ret |-> Raise(KeyError)]
    ELSE [registry |-> (resource_name :> cls) @@ registry, ret |-> Ok(VStr(cls))]

Init ==
    /\ registry = EmptyMap
    /\ rtype = [c \in Classes |-> ""]
    /\ last = Idle

Register(resource_name, cls) ==
    /\ last = Idle
    /\ \A d \in Deps(cls) : Defined(d)
    /\ rtype' = _resourceclass(resource_name, cls)
    /\ registry' = resource(resource_name, cls).registry
    /\ last' = [op |-> "resource", resource_name |-> resource_name, cls |-> cls,
                ret |-> resource(resource_name, cls).ret]

ToSimplified(obj) ==
    /\ last = Idle
    /\ Defined(obj.cls)
    /\ last' = [op |-> "to_simplified", obj |-> obj, ret |-> to_simplified(obj)]
    /\ UNCHANGED <<registry, rtype>>

FromSimplified(cls, data) ==
    /\ last = Idle
    /\ Defined(cls)
    /\ last' = [op |-> "from_simplified", cls |-> cls, data |-> data, obj |-> None,
                ret |-> from_simplified(cls, data)]
    /\ UNCHANGED <<registry, rtype>>

\* the map that to_simplified has just returned is given back to
\* from_simplified, with the class of the instance it came from
FromEncoded ==
    /\ last.op = "to_simplified"
    /\ last.ret.ok
    /\ last' = [op |-> "from_simplified", cls |-> last.obj.cls, data |-> last.ret.v,
                obj |-> last.obj, ret |-> from_simplified(last.obj.cls, last.ret.v)]
    /\ UNCHANGED <<registry, rtype>>

Load(data) ==
    /\ last = Idle
    /\ last' = [op |-> "load", data |-> data, ret |-> load(data)]
    /\ UNCHANGED <<registry, rtype>>

\* the caller takes the result
Return ==
    /\ last # Idle
    /\ last' = Idle
    /\ UNCHANGED <<registry, rtype>>

Next ==
    \/ \E p \in RegPairs : Register(p[1], p[2])
    \/ \E obj \in Instances : ToSimplified(obj)
    \/ \E p \in DecodeInputs : FromSimplified(p[1], p[2])
    \/ FromEncoded
    \/ \E data \in LoadInputs : Load(data)
    \/ Return

Spec == Init /\ [][Next]_vars

(***************************************************************************)
(* Inputs and calls for the classes of resources.py                        *)
(***************************************************************************)
\* a key that a document may leave out
Absent == [k |-> "absent"]
Entry(key, v) == IF v = Absent THEN EmptyMap ELSE (key :> v)

GoodCephFS == Map1("volume", VStr("cephfs"))

\* values given under the cephfs key of a share document
CephFSValues ==
    { Absent, None, GoodCephFS,
      Map2("volume", VStr("cephfs"), "subvolume", VStr("cool/beans")),
      Map2("volume", VStr("cephfs"), "subvolume", VStr("a/b/c")),
      Map2("volume", VStr("cephfs"), "provider", VStr("bogus")),
      Map1("path", VStr("/x")), Map1("volume", VStr("")), Map1("volume", VInt(5)),
      Map2("volume", VStr("cephfs"), "subvolumegroup", VInt(MaxInt)),
      VStr("oops"), VList(<<VStr("a")>>) }

ShareDoc(intent, name, cephfs, readonly, share) ==
    VDict(Entry("intent", intent) @@ Entry("name", name) @@ Entry("cephfs", cephfs)
          @@ Entry("readonly", readonly) @@ Entry("share", share)
          @@ [resource_type |-> VStr("ceph.smb.share"), cluster_id |-> VStr("c1"),
              share_id |-> VStr("s1")])

ShareDocs ==
    {ShareDoc(intent, name, cephfs, readonly, Absent) :
        intent \in {Absent, VStr("present"), VStr("removed"), VStr("bogus")},
        name \in {Absent, VStr("n1")},
        cephfs \in CephFSValues,
        readonly \in {Absent, VBool(TRUE), Map1("a", VInt(MaxInt))}}
    \cup {ShareDoc(Absent, Absent, cephfs, Absent, share) :
            cephfs \in {Absent, GoodCephFS},
            share \in {None, VStr("str"), Map1("name", VStr("x")),
                       Map2("name", VStr("x"), "cephfs", GoodCephFS),
                       Map1("cephfs", GoodCephFS)}}

GoodJoinSource == Map2("source_type", VStr("resource"), "ref", VStr("bob"))

\* values given under the domain_settings key of a cluster document
DomainValues ==
    { Absent, None,
      Map2("realm", VStr("R"), "join_sources", VList(<<GoodJoinSource>>)),
      Map2("realm", VStr("R"), "join_sources", VList(<<>>)),
      Map1("realm", VStr("R")),
      Map1("join_sources", VList(<<GoodJoinSource>>)),
      Map2("realm", VStr("R"), "join_sources", VList(<<Map1("ref", VStr("bob"))>>)),
      Map2("realm", VStr("R"), "join_sources", VList(<<VStr("junk")>>)),
      Map2("realm", VStr("R"), "join_sources",
           VList(<<Map1("source_type", VStr("bogus"))>>)),
      Map2("realm", VStr("R"), "join_sources", VStr("junk")),
      Map2("realm", VObj, "join_sources", VList(<<>>)),
      VStr("junk") }

GoodUserGroup ==
    Map3("source_type", VStr("resource"), "users", VList(<<>>), "groups", VList(<<>>))

\* values given under the user_group_settings key of a cluster document
UserGroupValues ==
    { Absent, VList(<<GoodUserGroup>>),
      VList(<<Map2("source_type", VStr("resource"), "ref", VStr("x"))>>),
      VList(<<Map3("source_type", VStr("resource"), "users", VList(<<VStr("x")>>),
                   "groups", VList(<<>>))>>),
      VList(<<VInt(MaxInt)>>), VStr("junk") }

ClusterDoc(intent, auth_mode, domain_settings, user_group_settings) ==
    VDict(Entry("intent", intent) @@ Entry("auth_mode", auth_mode)
          @@ Entry("domain_settings", domain_settings)
          @@ Entry("user_group_settings", user_group_settings)
          @@ [resource_type |-> VStr("ceph.smb.cluster"), cluster_id |-> VStr("c")])

ClusterDocs ==
    {ClusterDoc(intent, auth_mode, domain_settings, user_group_settings) :
        intent \in {Absent, VStr("removed")},
        auth_mode \in {Absent, VStr("user"), VStr("active-directory"), VStr("bogus"),
                       VInt(MaxInt)},
        domain_settings \in DomainValues,
        user_group_settings \in UserGroupValues}

\* documents given to load
\* documents with keys that no class declares, after YAML2
CustomDocs ==
    {VDict(("custom_config" :> Map1("hosts allow", VStr("adminbox"))) @@ doc.d) :
        doc \in {ShareDoc(Absent, VStr("n1"), GoodCephFS, Absent, Absent),
                 ShareDoc(VStr("removed"), Absent, Absent, Absent, Absent),
                 ShareDoc(Absent, Absent, Map1("volume", VStr("")), Absent, Absent)}}
    \cup {VDict(("custom_global_config" :> Map1("hostname lookups", VBool(TRUE)))
                @@ doc.d) :
            doc \in {ClusterDoc(Absent, VStr("user"), Absent, VList(<<GoodUserGroup>>)),
                     ClusterDoc(Absent, VStr("active-directory"),
                                Map2("realm", VStr("R"), "join_sources",
                                     VList(<<GoodJoinSource>>)), Absent)}}

ResLoadInputs ==
    ShareDocs \cup ClusterDocs \cup CustomDocs
    \cup {VList(<<ShareDoc(Absent, Absent, GoodCephFS, Absent, Absent),
                  ClusterDoc(VStr("removed"), Absent, Absent, Absent)>>)}

\* (class, data) pairs given to from_simplified
ResDecodeInputs ==
    {<<"ShareSettings", VDict(Entry("name", name) @@ Entry("share_id", share_id)
                              @@ Entry("browseable", browseable))>> :
        name \in {Absent, VStr("n1")}, share_id \in {Absent, VStr("s1")},
        browseable \in {Absent, VBool(FALSE), VStr("yes")}}
    \cup {<<"CephFSStorage", d>> : d \in CephFSValues \ {Absent}}
    \cup {<<"CephFSStorage", Map2("volume", VStr("cephfs"), "bogus", VStr("x"))>>}
    \cup {<<"JoinSource", d>> :
            d \in {GoodJoinSource, Map1("ref", VStr("bob")),
                   Map1("source_type", VStr("bogus")), VStr("junk")}}
    \cup {<<"Share", d>> : d \in {ShareDoc(Absent, Absent, GoodCephFS, Absent, Absent),
                                  Map2("cluster_id", VStr("c1"), "share_id", VStr("s1"))}}

\* instances that clients build with the constructors
CephFSInstances ==
    {VInst("CephFSStorage",
           [volume |-> VStr("cephfs"), path |-> VStr("/"), subvolumegroup |-> g,
            subvolume |-> sv, provider |-> VEnum("CephFSStorageProvider", p)]) :
        g \in {VStr(""), VStr("cool")}, sv \in {VStr(""), VStr("beans")},
        p \in CephFSStorageProvider}

ShareSettingsInstances ==
    {VInst("ShareSettings",
           [name |-> VStr("n1"), readonly |-> VBool(ro), browseable |-> VBool(br),
            cephfs |-> c]) :
        ro \in BOOLEAN, br \in BOOLEAN, c \in {None} \cup CephFSInstances}

ShareInstances ==
    {VInst("Share", [cluster_id |-> VStr("c1"), share_id |-> VStr("s1"),
                     intent |-> VEnum("Intent", i), share |-> sh]) :
        i \in Intent, sh \in {x \in ShareSettingsInstances : x.f.cephfs # None}}
    \cup {VInst("Share", [cluster_id |-> VStr("c1"), share_id |-> VStr("s1"),
                          intent |-> VEnum("Intent", "removed"), share |-> None])}
    \cup {VInst("Share", [cluster_id |-> VStr("c1"), share_id |-> VStr("s1"),
                          intent |-> VEnum("Intent", "present"), share |-> sh]) :
            sh \in {None, VStr("junk"), VInt(MaxInt)}}

ResInstances == CephFSInstances \cup ShareSettingsInstances \cup ShareInstances

\* the resource decorations of resources.py
ResRegPairs == { <<"ceph.smb.share", "Share">>, <<"ceph.smb.cluster", "Cluster">> }

\* an instance that load has just returned is encoded
ReencodeLoaded ==
    /\ last.op = "load"
    /\ last.ret.ok
    /\ \E i \in 1..Len(last.ret.v.l) :
          last' = [op |-> "to_simplified", obj |-> last.ret.v.l[i],
                   ret |-> to_simplified(last.ret.v.l[i]),
                   via |-> "load", input |-> last.data]
    /\ UNCHANGED <<registry, rtype>>

\* the instance that from_simplified has just returned is encoded
ReencodeDecoded ==
    /\ last.op = "from_simplified"
    /\ last.ret.ok
    /\ last.ret.v.k = "inst"
    /\ last' = [op |-> "to_simplified", obj |-> last.ret.v,
                ret |-> to_simplified(last.ret.v),
                via |-> "from_simplified", input |-> last.data]
    /\ UNCHANGED <<registry, rtype>>

NextRes ==
    \/ \E p \in ResRegPairs : Register(p[1], p[2])
    \/ \E obj \in ResInstances : ToSimplified(obj)
    \/ \E p \in ResDecodeInputs : FromSimplified(p[1], p[2])
    \/ FromEncoded
    \/ \E data \in ResLoadInputs : Load(data)
    \/ ReencodeLoaded
    \/ ReencodeDecoded
    \/ Return

SpecRes == Init /\ [][NextRes]_vars

(***************************************************************************)
(* Properties                                                              *)
(***************************************************************************)
\* the last call decoded the map that to_simplified returned for last.obj
DecodedEncoding == last.op = "from_simplified" /\ last.obj # None

\* the fields of a class, as a set
FieldSet(c) == {fields(c)[i] : i \in 1..Len(fields(c))}

\* C1: round trip. For every instance x, decoding encode(x) with the class
\* of x and encoding the result gives encode(x) again.
C1_RoundTrip ==
    DecodedEncoding =>
        /\ last.ret.ok
        /\ to_simplified(last.ret.v) = Ok(last.data)

\* C2: decode is total over encoded values. For every instance x,
\* decoding encode(x) with the class of x returns an instance and raises
\* nothing.
C2_DecodeTotal ==
    DecodedEncoding => (last.ret.ok /\ last.ret.v.k = "inst")

\* C3: tag uniqueness. A registration under a tag that is already bound
\* raises the collision error (KeyError) and binds nothing; a registration
\* under a free tag binds it; and a binding, once made, is never replaced
\* or removed.
C3_TagUniqueness ==
    [][ /\ (last = Idle /\ last'.op = "resource") =>
             IF last'.resource_name \in DOMAIN registry
             THEN /\ last'.ret = Raise(KeyError)
                  /\ registry' = registry
             ELSE /\ last'.ret.ok
                  /\ DOMAIN registry' = DOMAIN registry \cup {last'.resource_name}
                  /\ registry'[last'.resource_name] = last'.cls
        /\ \A t \in DOMAIN registry :
             t \in DOMAIN registry' /\ registry'[t] = registry[t] ]_vars

\* C3 witness: FakeOne was refused the tag that ResOne holds.
C3_Witness ==
    /\ last.op = "resource"
    /\ last.cls = "FakeOne"
    /\ last.ret = Raise(KeyError)
    /\ "test.res.one" \in DOMAIN registry
    /\ registry["test.res.one"] = "ResOne"

\* the value of resource_type in a map is not a tag the registry binds
UnboundType(data) ==
    /\ data.k = "dict"
    /\ "resource_type" \in DOMAIN data.d
    /\ ~(data.d["resource_type"].k = "str"
         /\ data.d["resource_type"].s \in DOMAIN registry)

\* C4: unknown tag. load of a map whose resource_type value is not bound in
\* the registry raises InvalidResourceTypeError whose actual is that value.
C4_UnknownTag ==
    (last.op = "load" /\ UnboundType(last.data)) =>
        last.ret = Raise(InvalidResourceTypeError("", last.data.d["resource_type"]))

\* a map with neither a resource_type nor a resources key
Untagged(data) ==
    /\ data.k = "dict"
    /\ "resource_type" \notin DOMAIN data.d
    /\ "resources" \notin DOMAIN data.d

\* C5: missing tag. load of a map with neither a resource_type key nor a
\* resources key raises MissingResourceTypeError.
C5_MissingTag ==
    (last.op = "load" /\ Untagged(last.data)) =>
        (~last.ret.ok /\ last.ret.exc.type = "MissingResourceTypeError")

\* C5 witness: load({"foo": 1}) raised MissingResourceTypeError.
C5_Witness ==
    /\ last.op = "load"
    /\ last.data = Map1("foo", VInt(1))
    /\ last.ret = Raise(MissingResourceTypeError(last.data))

\* C6: the map encoded from an instance of a tagged class has a
\* resource_type key whose value is the tag of that class, whatever its
\* fields; the map encoded from an instance of an untagged class has no
\* resource_type key.
C6_EncodedTag ==
    (last.op = "to_simplified" /\ last.ret.ok) =>
        IF rtype[last.obj.cls] # ""
        THEN /\ "resource_type" \in DOMAIN last.ret.v.d
             /\ last.ret.v.d["resource_type"] = VStr(rtype[last.obj.cls])
        ELSE "resource_type" \notin DOMAIN last.ret.v.d

\* the embedded fields of a class that hold an untagged component
EmbeddedComponents(c) ==
    {fld \in FieldSet(c) :
        /\ fld.extras.embedded
        /\ unwrap_optional(fld.type).t = "cls"
        /\ unwrap_optional(fld.type).c \in Components}

\* C7: embedding flatten. The keys of an embedded component's encoding are
\* keys of the parent's map, with the same values, and the parent's map has
\* no key named after the embedded field; decoding the parent's map with
\* the parent class recovers the component.
C7_EmbeddingFlatten ==
    DecodedEncoding =>
        \A fld \in EmbeddedComponents(last.cls) :
            /\ to_simplified(last.obj.f[fld.name]).ok
            /\ \A n \in DOMAIN to_simplified(last.obj.f[fld.name]).v.d :
                  /\ n \in DOMAIN last.data.d
                  /\ last.data.d[n] = to_simplified(last.obj.f[fld.name]).v.d[n]
            /\ fld.name \notin DOMAIN last.data.d
            /\ last.ret.ok
            /\ last.ret.v.f[fld.name] = last.obj.f[fld.name]

\* C8: inclusion policy. A field that is not embedded is a key of the
\* encoded map, holding the field's simplified value, exactly when that
\* value is truthy, or is null and keep_none is set, or is falsy but not
\* null and keep_false is set; otherwise the key is absent.
C8_InclusionPolicy ==
    (last.op = "to_simplified" /\ last.ret.ok) =>
        \A fld \in {f \in FieldSet(last.obj.cls) : ~f.extras.embedded} :
            LET sv == _simplify_field(fld.type, last.obj.f[fld.name]).v
                kept == \/ Truthy(sv)
                        \/ (sv.k = "none" /\ fld.extras.keep_none)
                        \/ (sv.k # "none" /\ ~Truthy(sv) /\ fld.extras.keep_false)
            IN IF kept
               THEN /\ fld.name \in DOMAIN last.ret.v.d
                    /\ last.ret.v.d[fld.name] = sv
               ELSE fld.name \notin DOMAIN last.ret.v.d

\* C8 witness: a tclass1 was encoded whose empty baz (keep_false unset) and
\* null tags were left out, whose null womble (keep_none) was kept as null
\* and whose empty foo and zero bar (keep_false by default) were kept.
C8_Witness ==
    /\ last.op = "to_simplified"
    /\ last.obj.cls = "tclass1"
    /\ last.obj.f.baz = VStr("")
    /\ last.obj.f.foo = VStr("")
    /\ last.obj.f.quux = VList(<<>>)
    /\ last.ret.ok
    /\ last.ret.v.d = [foo |-> VStr(""), bar |-> VInt(0), quux |-> VList(<<>>),
                       womble |-> None]

\* a batch: a bare sequence, or an envelope {"resources": [...]}
IsEnvelope(data) ==
    /\ data.k = "dict"
    /\ "resource_type" \notin DOMAIN data.d
    /\ "resources" \in DOMAIN data.d
    /\ data.d["resources"].k = "list"

IsBatch(data) == data.k = "list" \/ IsEnvelope(data)

\* the elements of a batch
Elements(data) == IF data.k = "list" THEN data.l ELSE data.d["resources"].l

\* the maps a batch holds, in input order, those of nested batches in place
RECURSIVE Leaves(_), LeavesOf(_)
Leaves(data) == IF IsBatch(data) THEN LeavesOf(Elements(data)) ELSE <<data>>
LeavesOf(l) == IF l = <<>> THEN <<>> ELSE Leaves(Head(l)) \o LeavesOf(Tail(l))

\* C9: envelope and batch order. When load of a batch returns, it returns
\* one instance for each map of the batch, in input order, the maps of
\* nested batches taken in place; each instance is what from_simplified of
\* the class registered under the map's resource_type returns for the map,
\* and is of that class.
C9_BatchOrder ==
    (last.op = "load" /\ IsBatch(last.data) /\ last.ret.ok) =>
        LET leaves == Leaves(last.data)
        IN /\ Len(last.ret.v.l) = Len(leaves)
           /\ \A i \in 1..Len(leaves) :
                 /\ leaves[i].k = "dict"
                 /\ "resource_type" \in DOMAIN leaves[i].d
                 /\ leaves[i].d["resource_type"].k = "str"
                 /\ leaves[i].d["resource_type"].s \in DOMAIN registry
                 /\ last.ret.v.l[i].k = "inst"
                 /\ last.ret.v.l[i].cls = registry[leaves[i].d["resource_type"].s]
                 /\ Ok(last.ret.v.l[i]) =
                       from_simplified(registry[leaves[i].d["resource_type"].s], leaves[i])

\* C9 witness: a sequence holding a sequence of one map and an envelope of
\* two maps was loaded into three instances, of ResOne, ResTwo and ResOne.
C9_Witness ==
    /\ last.op = "load"
    /\ last.data = VList(<<VList(<<DataOne2>>), Envelope(<<DataTwo, DataOne1>>)>>)
    /\ last.ret.ok
    /\ Len(last.ret.v.l) = 3
    /\ last.ret.v.l[1].cls = "ResOne"
    /\ last.ret.v.l[1].f.zim = VStr("zoinks")
    /\ last.ret.v.l[2].cls = "ResTwo"
    /\ last.ret.v.l[3].cls = "ResOne"
    /\ last.ret.v.l[3].f.zim = VStr("zoom")

\* C10: all-or-nothing batch. When loading any one element of a batch
\* fails, load of the batch raises, and what the caller gets holds no
\* instances.
C10_AllOrNothing ==
    (last.op = "load" /\ IsBatch(last.data)) =>
        ((\E i \in 1..Len(Elements(last.data)) : ~load(Elements(last.data)[i]).ok)
            => (~last.ret.ok /\ "v" \notin DOMAIN last.ret))

\* C10 witness: a batch whose first element loads and whose second does
\* not was loaded, and load raised.
C10_Witness ==
    /\ last.op = "load"
    /\ last.data = VList(<<DataOne1, DataNoType>>)
    /\ load(DataOne1).ok
    /\ last.ret = Raise(MissingResourceTypeError(DataNoType))

\* the fields of a class that have alt keys
AltKeyFields(c) == {fld \in FieldSet(c) : fld.extras.alt_keys # <<>>}

\* the map has none of the field's own keys but has its first alt key
OnlyAltKey(fld, data) ==
    /\ data.k = "dict"
    /\ fld.name \notin DOMAIN data.d
    /\ fld.extras.alt_keys[1] \in DOMAIN data.d

\* a share document that load has decoded into a Share with share settings,
\* the settings being read from the document itself
LoadedShare ==
    /\ last.op = "load"
    /\ last.data \in ShareDocs
    /\ "share" \notin DOMAIN last.data.d
    /\ last.ret.ok
    /\ last.ret.v.l[1].f.share # None

\* C11: alt-key fallback. Decoding a map that lacks the primary name of a
\* field with alt keys but holds its alt key gives the field the value found
\* under the alt key; for the name of the embedded share settings the alt
\* key share_id is read from the share's own map.
C11_AltKeyFallback ==
    /\ (last.op = "from_simplified" /\ last.data.k = "dict") =>
          \A fld \in AltKeyFields(last.cls) :
              OnlyAltKey(fld, last.data) =>
                  /\ last.ret.ok
                  /\ last.ret.v.f[fld.name] = last.data.d[fld.extras.alt_keys[1]]
    /\ LoadedShare =>
          \A fld \in AltKeyFields("ShareSettings") :
              OnlyAltKey(fld, last.data) =>
                  last.ret.v.l[1].f.share.f[fld.name]
                      = last.data.d[fld.extras.alt_keys[1]]

\* C11 witness: a share document with share_id s1 and no name was loaded
\* into a Share whose settings are named s1.
C11_Witness ==
    /\ LoadedShare
    /\ "name" \notin DOMAIN last.data.d
    /\ last.data.d["share_id"] = VStr("s1")
    /\ last.ret.v.l[1].f.share.f.name = VStr("s1")

\* C12: alt keys never influence encode. The map encoded from an instance
\* of a class holds each kept field with alt keys under the field's primary
\* name and has no key that is only an alt key, also when the instance was
\* decoded from a map that gave the value under the alt key.
C12_EncodePrimaryName ==
    (last.op = "to_simplified" /\ last.ret.ok) =>
        \A fld \in AltKeyFields(last.obj.cls) :
            /\ \A i \in 1..Len(fld.extras.alt_keys) :
                  fld.extras.alt_keys[i] \notin DOMAIN last.ret.v.d
            /\ last.obj.f[fld.name].k = "str" =>
                  /\ fld.name \in DOMAIN last.ret.v.d
                  /\ last.ret.v.d[fld.name] = last.obj.f[fld.name]

\* C12 witness: share settings decoded from {share_id: s1} were encoded
\* with the key name and without the key share_id.
C12_Witness ==
    /\ last.op = "to_simplified"
    /\ "via" \in DOMAIN last
    /\ last.via = "from_simplified"
    /\ last.input = Map1("share_id", VStr("s1"))
    /\ last.ret.ok
    /\ last.ret.v.d["name"] = VStr("s1")
    /\ "share_id" \notin DOMAIN last.ret.v.d

\* the last call decoded one map into a class: from_simplified, or load of
\* a map whose resource_type the registry binds
DecodeCall ==
    \/ last.op = "from_simplified" /\ last.data.k = "dict"
    \/ /\ last.op = "load"
       /\ last.data.k = "dict"
       /\ "resource_type" \in DOMAIN last.data.d
       /\ get_resource(last.data.d["resource_type"]).ok

DecodeCls ==
    IF last.op = "from_simplified" THEN last.cls
    ELSE registry[last.data.d["resource_type"].s]

\* what the tag check of a tagged class raises for a map, if anything
TagError(c, data) ==
    IF "resource_type" \notin DOMAIN data.d
    THEN Raise(MissingResourceTypeError(data))
    ELSE IF data.d["resource_type"] # VStr(rtype[c])
    THEN Raise(InvalidResourceTypeError(rtype[c], data.d["resource_type"]))
    ELSE Ok(None)

\* the i-th field of a class holds a tagged class and the map gives a map
\* for it whose tag check fails, the class's own check and the fields
\* before the i-th raising nothing
NestedTagError(c, data, i) ==
    /\ rtype[c] # "" => TagError(c, data).ok
    /\ unwrap_optional(fields(c)[i].type).t = "cls"
    /\ rtype[unwrap_optional(fields(c)[i].type).c] # ""
    /\ ~fields(c)[i].extras.embedded
    /\ fields(c)[i].name \in DOMAIN data.d
    /\ data.d[fields(c)[i].name].k = "dict"
    /\ ~TagError(unwrap_optional(fields(c)[i].type).c, data.d[fields(c)[i].name]).ok
    /\ \A j \in 1..(i - 1) :
          \/ _from_object_field(fields(c)[j], data).ok
          \/ IsMissingFieldError(_from_object_field(fields(c)[j], data))

\* C13: tag check on decode. Decoding a map into a tagged class, at top
\* level or as a nested field, raises MissingResourceTypeError when the map
\* has no resource_type key and InvalidResourceTypeError(expected = the
\* class's tag, actual = the value found) when the key holds another value;
\* no instance is returned.
C13_TagCheck ==
    DecodeCall =>
        /\ (rtype[DecodeCls] # "" /\ ~TagError(DecodeCls, last.data).ok) =>
              last.ret = TagError(DecodeCls, last.data)
        /\ \A i \in 1..Len(fields(DecodeCls)) :
              NestedTagError(DecodeCls, last.data, i) =>
                  last.ret = TagError(unwrap_optional(fields(DecodeCls)[i].type).c,
                                      last.data.d[fields(DecodeCls)[i].name])

\* C13 witness: load of a ResThree map whose nested ResOne map is tagged
\* test.foo.flub raised InvalidResourceTypeError(test.res.one, test.foo.flub).
C13_Witness ==
    /\ last.op = "load"
    /\ last.data = DataSubWrong
    /\ last.ret = Raise(InvalidResourceTypeError("test.res.one", VStr("test.foo.flub")))

\* the required fields of a class that a map gives under none of their keys
MissingRequired(c, data) ==
    {fld \in FieldSet(c) :
        /\ ~fld.hasdef
        /\ ~is_optional(fld.type)
        /\ ~fld.extras.embedded
        /\ \A i \in 1..Len(lookup_keys(fld)) : lookup_keys(fld)[i] \notin DOMAIN data.d}

\* C14: missing required field. Decoding a map that lacks a required field
\* (not Optional, no default, no alt key present) raises MissingFieldError
\* carrying the name of such a field.
C14_MissingField ==
    (/\ DecodeCall
     /\ rtype[DecodeCls] # "" => TagError(DecodeCls, last.data).ok
     /\ MissingRequired(DecodeCls, last.data) # {}) =>
        \E fld \in MissingRequired(DecodeCls, last.data) :
            last.ret = Raise(MissingFieldError(fld.name))

\* a value is of the primitive kind a field declares (a bool is an int)
OfKind(type_info, v) ==
    CASE type_info.t = "str" -> v.k = "str"
      [] type_info.t = "int" -> v.k \in {"int", "bool"}
      [] type_info.t = "bool" -> v.k = "bool"
      [] OTHER -> TRUE

\* the fields of primitive kind that a map gives a value of another kind
Mismatched(c, data) ==
    {fld \in FieldSet(c) :
        /\ unwrap_optional(fld.type).t \in {"str", "int", "bool"}
        /\ fld.name \in DOMAIN data.d
        /\ ~(data.d[fld.name] = None /\ is_optional(fld.type))
        /\ ~OfKind(unwrap_optional(fld.type), data.d[fld.name])}

\* C15: scalar type check. Decoding a map that gives a field of primitive
\* kind a value of another kind (a string for an int field, an object that
\* is no scalar for a str field) raises InvalidFieldError naming such a
\* field.
C15_ScalarTypeCheck ==
    (/\ DecodeCall
     /\ rtype[DecodeCls] # "" => TagError(DecodeCls, last.data).ok
     /\ MissingRequired(DecodeCls, last.data) = {}
     /\ Mismatched(DecodeCls, last.data) # {}) =>
        \E fld \in Mismatched(DecodeCls, last.data) :
            last.ret = Raise(InvalidFieldError(fld.name))

\* the fields of a class that hold an enumeration and that a map gives a
\* string for
EnumFields(c, data) ==
    {fld \in FieldSet(c) :
        /\ fld.type.t = "enum"
        /\ fld.name \in DOMAIN data.d
        /\ data.d[fld.name].k = "str"}

data_member(fld, data) == data.d[fld.name].s \in EnumMembers(fld.type.e)

\* the instance the last decode call returned
decoded_instance ==
    IF last.op = "from_simplified" THEN last.ret.v ELSE last.ret.v.l[1]

\* C16: enum decode. Decoding an enumeration field from a string that is
\* the value of a member gives that member; a string that is the value of
\* no member raises InvalidFieldError naming the field.
C16_EnumDecode ==
    DecodeCall =>
        \A fld \in EnumFields(DecodeCls, last.data) :
            IF data_member(fld, last.data)
            THEN last.ret.ok =>
                    decoded_instance.f[fld.name]
                        = VEnum(fld.type.e, last.data.d[fld.name].s)
            ELSE last.ret = Raise(InvalidFieldError(fld.name))

\* the share document of the scenario and the map it is to encode to
ScenarioDoc ==
    VDict([resource_type |-> VStr("ceph.smb.share"), cluster_id |-> VStr("c1"),
           share_id |-> VStr("s1"), cephfs |-> Map1("volume", VStr("cephfs"))])

ScenarioEncoded ==
    VDict([resource_type |-> VStr("ceph.smb.share"), cluster_id |-> VStr("c1"),
           share_id |-> VStr("s1"), intent |-> VStr("present"), name |-> VStr("s1"),
           readonly |-> VBool(FALSE), browseable |-> VBool(TRUE),
           cephfs |-> VDict([volume |-> VStr("cephfs"), path |-> VStr("/"),
                             provider |-> VStr("samba-vfs")])])

\* C17: concrete share scenario. With Share registered, load of
\* {resource_type: ceph.smb.share, cluster_id: c1, share_id: s1,
\* cephfs: {volume: cephfs}} returns one Share, and encoding it gives exactly
\* the map with intent present, name s1, readonly false, browseable true and
\* cephfs {volume: cephfs, path: /, provider: samba-vfs}, subvolume and
\* subvolumegroup being left out.
C17_ShareScenario ==
    /\ (/\ last.op = "load"
        /\ last.data = ScenarioDoc
        /\ "ceph.smb.share" \in DOMAIN registry) =>
            (last.ret.ok /\ Len(last.ret.v.l) = 1 /\ last.ret.v.l[1].cls = "Share")
    /\ (/\ last.op = "to_simplified"
        /\ "via" \in DOMAIN last
        /\ last.via = "load"
        /\ last.input = ScenarioDoc) =>
            last.ret = Ok(ScenarioEncoded)

\* C17 witness: the Share loaded from the scenario's document was encoded.
C17_Witness ==
    /\ last.op = "to_simplified"
    /\ "via" \in DOMAIN last
    /\ last.via = "load"
    /\ last.input = ScenarioDoc
    /\ last.obj.f.share.f.name = VStr("s1")
    /\ last.ret.ok
    /\ "subvolume" \notin DOMAIN last.ret.v.d["cephfs"].d

\* a value given for a list of records is no list or holds an element that
\* is no map
BadRecordList(v) == v.k # "list" \/ \E i \in 1..Len(v.l) : v.l[i].k # "dict"

\* a cluster document gives a sub-field of the settings a value of the wrong
\* type or shape
WrongShape(data) ==
    \/ /\ "domain_settings" \in DOMAIN data.d
       /\ data.d["domain_settings"] # None
       /\ \/ data.d["domain_settings"].k # "dict"
          \/ /\ "realm" \in DOMAIN data.d["domain_settings"].d
             /\ data.d["domain_settings"].d["realm"].k # "str"
          \/ /\ "join_sources" \in DOMAIN data.d["domain_settings"].d
             /\ BadRecordList(data.d["domain_settings"].d["join_sources"])
    \/ /\ "user_group_settings" \in DOMAIN data.d
       /\ data.d["user_group_settings"] # None
       /\ BadRecordList(data.d["user_group_settings"])

\* C19: optional-embedded swallow rule. Loading a cluster document, whose
\* settings are Optional and embedded: when the required auth_mode is
\* missing and no sub-value is of the wrong type or shape, the settings
\* decode to None and the load succeeds; when a present sub-value is of the
\* wrong type or shape (a bad element of a list sub-field included), the
\* load raises.
C19_OptionalEmbeddedSwallow ==
    (/\ last.op = "load"
     /\ last.data \in ClusterDocs
     /\ "ceph.smb.cluster" \in DOMAIN registry) =>
        IF WrongShape(last.data)
        THEN ~last.ret.ok
        ELSE "auth_mode" \notin DOMAIN last.data.d =>
                (last.ret.ok /\ last.ret.v.l[1].f.settings = None)

\* the map holds both the field's primary name and its first alt key
BothKeys(fld, data) ==
    /\ data.k = "dict"
    /\ fld.name \in DOMAIN data.d
    /\ fld.extras.alt_keys[1] \in DOMAIN data.d

\* C20 as stated: alt keys take precedence. Decoding a map that holds both
\* the primary name and an alt key of a field gives the field the value
\* found under the alt key.
C20_AltKeyFirst ==
    /\ (last.op = "from_simplified" /\ last.ret.ok) =>
          \A fld \in AltKeyFields(last.cls) :
              BothKeys(fld, last.data) =>
                  last.ret.v.f[fld.name] = last.data.d[fld.extras.alt_keys[1]]
    /\ LoadedShare =>
          \A fld \in AltKeyFields("ShareSettings") :
              BothKeys(fld, last.data) =>
                  last.ret.v.l[1].f.share.f[fld.name]
                      = last.data.d[fld.extras.alt_keys[1]]

\* C20 amended: the primary name takes precedence. Decoding a map that
\* holds both the primary name and an alt key of a field gives the field the
\* value found under the primary name; the alt keys are a fallback only.
C20_PrimaryFirst ==
    /\ (last.op = "from_simplified" /\ last.ret.ok) =>
          \A fld \in AltKeyFields(last.cls) :
              BothKeys(fld, last.data) =>
                  last.ret.v.f[fld.name] = last.data.d[fld.name]
    /\ LoadedShare =>
          \A fld \in AltKeyFields("ShareSettings") :
              BothKeys(fld, last.data) =>
                  last.ret.v.l[1].f.share.f[fld.name] = last.data.d[fld.name]

\* C20 witness: a share document with name n1 and share_id s1 was loaded
\* into a Share whose settings are named n1.
C20_Witness ==
    /\ LoadedShare
    /\ last.data.d["share_id"] = VStr("s1")
    /\ "name" \in DOMAIN last.data.d
    /\ last.data.d["name"] = VStr("n1")
    /\ last.ret.v.l[1].f.share.f.name = VStr("n1")

(***************************************************************************)
(* Concurrent calls once the decorators have run                           *)
(***************************************************************************)
MaxThreads == 2

Threads == 1..MaxThreads

\* _RESOURCES once every decorator of the module has run; the decoration of
\* FakeOne raised and bound nothing
Registered ==
    ("test.res.one" :> "ResOne") @@ ("test.res.two" :> "ResTwo")
    @@ ("test.res.three" :> "ResThree") @@ ("test.res.wrap" :> "ResWrap")

\* cls.resource_type of every class once every decorator has run
RegisteredTypes ==
    [c \in Classes |->
        CASE c = "ResOne" -> "test.res.one"
          [] c = "ResTwo" -> "test.res.two"
          [] c = "ResThree" -> "test.res.three"
          [] c = "FakeOne" -> "test.res.one"
          [] c = "ResWrap" -> "test.res.wrap"
          [] OTHER -> ""]

\* what the threads give to load
ConcLoadInputs ==
    { VList(<<DataOne1, DataTwo>>), VList(<<DataOne2, DataNoType>>),
      Envelope(<<DataTwo, DataOne1>>), VList(<<VList(<<DataOne2>>), DataFred>>) }

\* what the threads give to from_simplified
ConcDecodeInputs == {<<"ResTwo", DataTwo>>, <<"ResOne", DataFred>>}

\* what the threads give to to_simplified
ConcInstances == R1Some

\* load's first two branches: the data is iterated over, element by element
is_iterated(data) ==
    \/ data.k = "list"
    \/ /\ data.k = "dict"
       /\ "resource_type" \notin DOMAIN data.d
       /\ "resources" \in DOMAIN data.d
       /\ data.d["resources"].k = "list"

\* the elements load iterates over
iterated(data) == IF data.k = "list" THEN data.l ELSE data.d["resources"].l

\* locals that every call takes from the longest-running load
locals_shared(ls, t) ==
    LET u == CHOOSE u \in Threads :
                /\ ls[u].op = "load" /\ ls[u].pc = "run"
                /\ \A w \in Threads :
                      (ls[w].op = "load" /\ ls[w].pc = "run") => u <= w
    IN [todo |-> ls[u].todo, acc |-> ls[u].acc]

\* the locals of the load call running in thread t: the elements still to
\* be loaded and the list of instances built so far
locals(ls, t) == [todo |-> ls[t].todo, acc |-> ls[t].acc]

\* the load call returns or raises
finished(fr, ret) == [op |-> fr.op, pc |-> "done", data |-> fr.data, ret |-> ret]

\* one loaded element: its instances are chained, or what it raised ends
\* the call
load_leaf(fr, loc, r) ==
    IF r.ok
    THEN [fr EXCEPT !.todo = Tail(loc.todo), !.acc = chain(loc.acc, r.v.l)]
    ELSE finished(fr, r)

\* one step of a load call: the next element is iterated over or loaded,
\* and the list is returned when no element is left
load_step(fr, loc) ==
    IF loc.todo = <<>> THEN finished(fr, Ok(VList(loc.acc)))
    ELSE IF is_iterated(Head(loc.todo))
    THEN [fr EXCEPT !.todo = iterated(Head(loc.todo)) \o Tail(loc.todo),
                    !.acc = loc.acc]
    ELSE load_leaf(fr, loc, load(Head(loc.todo)))

InitConc ==
    /\ registry = Registered
    /\ rtype = RegisteredTypes
    /\ last = [t \in Threads |-> Idle]

CallLoad(t, data) ==
    /\ last[t] = Idle
    /\ last' = [last EXCEPT ![t] = [op |-> "load", pc |-> "run", data |-> data,
                                    todo |-> <<data>>, acc |-> <<>>]]
    /\ UNCHANGED <<registry, rtype>>

StepLoad(t) ==
    /\ last[t].op = "load"
    /\ last[t].pc = "run"
    /\ last' = [last EXCEPT ![t] = load_step(last[t], locals(last, t))]
    /\ UNCHANGED <<registry, rtype>>

CallToSimplified(t, obj) ==
    /\ last[t] = Idle
    /\ last' = [last EXCEPT ![t] = [op |-> "to_simplified", pc |-> "run", obj |-> obj]]
    /\ UNCHANGED <<registry, rtype>>

StepToSimplified(t) ==
    /\ last[t].op = "to_simplified"
    /\ last[t].pc = "run"
    /\ last' = [last EXCEPT ![t] = [op |-> "to_simplified", pc |-> "done",
                                    obj |-> last[t].obj,
                                    ret |-> to_simplified(last[t].obj)]]
    /\ UNCHANGED <<registry, rtype>>

CallFromSimplified(t, cls, data) ==
    /\ last[t] = Idle
    /\ last' = [last EXCEPT ![t] = [op |-> "from_simplified", pc |-> "run",
                                    cls |-> cls, data |-> data]]
    /\ UNCHANGED <<registry, rtype>>

StepFromSimplified(t) ==
    /\ last[t].op = "from_simplified"
    /\ last[t].pc = "run"
    /\ last' = [last EXCEPT ![t] = [op |-> "from_simplified", pc |-> "done",
                                    cls |-> last[t].cls, data |-> last[t].data,
                                    ret |-> from_simplified(last[t].cls, last[t].data)]]
    /\ UNCHANGED <<registry, rtype>>

\* the caller in thread t takes the result
ReturnConc(t) ==
    /\ last[t] # Idle
    /\ last[t].pc = "done"
    /\ last' = [last EXCEPT ![t] = Idle]
    /\ UNCHANGED <<registry, rtype>>

NextConc ==
    \/ \E t \in Threads, data \in ConcLoadInputs : CallLoad(t, data)
    \/ \E t \in Threads : StepLoad(t)
    \/ \E t \in Threads, obj \in ConcInstances : CallToSimplified(t, obj)
    \/ \E t \in Threads : StepToSimplified(t)
    \/ \E t \in Threads, p \in ConcDecodeInputs : CallFromSimplified(t, p[1], p[2])
    \/ \E t \in Threads : StepFromSimplified(t)
    \/ \E t \in Threads : ReturnConc(t)

SpecConc == InitConc /\ [][NextConc]_vars

\* what the call of a frame returns or raises when it runs alone
Alone(fr) ==
    CASE fr.op = "load" -> load(fr.data)
      [] fr.op = "to_simplified" -> to_simplified(fr.obj)
      [] fr.op = "from_simplified" -> from_simplified(fr.cls, fr.data)

\* C18: concurrent calls after registration. Whatever the interleaving of
\* the load, to_simplified and from_simplified calls of the threads, the
\* registry stays what the decorators left, and every finished call has
\* returned or raised what the same call returns or raises alone.
C18_ConcurrentCalls ==
    /\ registry = Registered
    /\ \A t \in Threads :
          (last[t] # Idle /\ last[t].pc = "done") => last[t].ret = Alone(last[t])

\* C18 witness: thread 1 has loaded a batch of two instances while thread 2
\* is part-way through loading another batch.
C18_Witness ==
    /\ last[1] # Idle /\ last[1].op = "load" /\ last[1].pc = "done"
    /\ last[1].ret.ok /\ Len(last[1].ret.v.l) = 2
    /\ last[2] # Idle /\ last[2].op = "load" /\ last[2].pc = "run"
    /\ last[2].data # last[1].data
    /\ last[2].acc # <<>> /\ last[2].todo # <<>>

\* the embedded fields of an instance whose encoded value is not a map
NonMapEmbedded(obj) ==
    {fld \in FieldSet(obj.cls) :
        /\ fld.extras.embedded
        /\ _simplify_field(fld.type, obj.f[fld.name]).ok
        /\ _simplify_field(fld.type, obj.f[fld.name]).v.k # "dict"}

\* C21: non-map embedded value. Encoding an instance that has an embedded
\* field whose encoded value is not a map (None, a scalar, a list) raises.
C21_EmbeddedNonMap ==
    (last.op = "to_simplified" /\ NonMapEmbedded(last.obj) # {}) => ~last.ret.ok

\* C22: load terminates within a schema-bounded depth. Every load call
\* returns a list or raises, and what it raises is never RecursionError,
\* the interpreter's report that the recursion went deeper than its limit.
C22_LoadTerminates ==
    last.op = "load" =>
        /\ last.ret.ok => last.ret.v.k = "list"
        /\ last.ret # Raise(RecursionError)

\* the Optional fields of a class that are not embedded
PlainOptional(c) == {fld \in FieldSet(c) : is_optional(fld.type) /\ ~fld.extras.embedded}

\* the map has neither the field's primary name nor any of its alt keys
NoKey(fld, data) ==
    /\ fld.name \notin DOMAIN data.d
    /\ \A i \in 1..Len(fld.extras.alt_keys) : fld.extras.alt_keys[i] \notin DOMAIN data.d

\* the map binds the field's primary name to null
NullKey(fld, data) == fld.name \in DOMAIN data.d /\ data.d[fld.name] = None

\* C23: Optional absence. Decoding a map in which a non-embedded Optional
\* field has none of its keys, or has its name bound to null, decodes the
\* field to None and not to a missing-field error, and the instance of a
\* successful decode holds None in that field.
C23_OptionalAbsence ==
    (last.op = "from_simplified" /\ last.data.k = "dict") =>
        \A fld \in PlainOptional(last.cls) :
            (NoKey(fld, last.data) \/ NullKey(fld, last.data)) =>
                /\ _from_object_field(fld, last.data) = Ok(None)
                /\ last.ret.ok => last.ret.v.f[fld.name] = None

\* C23 witness: a tclass1 map with womble bound to null and without quux was
\* decoded into an instance that holds None in both.
C23_Witness ==
    /\ last.op = "from_simplified"
    /\ last.cls = "tclass1"
    /\ last.data.k = "dict"
    /\ "quux" \notin DOMAIN last.data.d
    /\ "womble" \in DOMAIN last.data.d
    /\ last.data.d["womble"] = None
    /\ last.ret.ok
    /\ last.ret.v.f.quux = None
    /\ last.ret.v.f.womble = None

\* what the validate hook of class c returns or raises when decode builds an
\* instance of c from data; Ok(None) when no instance gets built
HookResult(c, data) ==
    LET kw == _from_object_fields(fields(c), data, 1, Ok(EmptyMap))
    IN IF kw.ok /\ construct(c, kw.v).ok THEN validate(construct(c, kw.v).v)
       ELSE Ok(None)

\* the first n fields of class c decode from data
FieldsDecode(c, data, n) ==
    _from_object_fields(SubSeq(fields(c), 1, n), data, 1, Ok(EmptyMap)).ok

\* the map the share settings of a share document are decoded from
SettingsSource(data) == IF "share" \in DOMAIN data.d THEN data.d["share"] ELSE data

\* the (class, map) pairs of a loaded document whose validate hook decode
\* reaches: the hook of the tagged class, and the hooks of the nested
\* classes whose preceding fields decode
HookSites(data) ==
    IF data \in ShareDocs THEN
        {<<"Share", data>>}
        \cup (IF /\ FieldsDecode("Share", data, 3)
                 /\ SettingsSource(data).k = "dict"
                 /\ FieldsDecode("ShareSettings", SettingsSource(data), 3)
                 /\ "cephfs" \in DOMAIN SettingsSource(data).d
                 /\ SettingsSource(data).d["cephfs"].k = "dict"
              THEN {<<"CephFSStorage", SettingsSource(data).d["cephfs"]>>}
              ELSE {})
    ELSE IF data \in ClusterDocs /\ FieldsDecode("Cluster", data, 2)
    THEN {<<"ClusterSettings", data>>}
    ELSE {}

\* C24: validation hook. When load decodes a document and the validate hook
\* of the tagged class or of a nested class raises, load raises that same
\* error and returns no instance.
C24_ValidateHook ==
    (/\ last.op = "load"
     /\ last.data \in ShareDocs \cup ClusterDocs
     /\ last.data.d["resource_type"].s \in DOMAIN registry) =>
        \A site \in HookSites(last.data) :
            ~HookResult(site[1], site[2]).ok =>
                last.ret = HookResult(site[1], site[2])

\* C25: resources bound to a non-sequence. Loading a map that has no
\* resource_type key and binds resources to something that is no list
\* raises MissingResourceTypeError.
C25_ResourcesNotList ==
    (/\ last.op = "load"
     /\ last.data.k = "dict"
     /\ "resource_type" \notin DOMAIN last.data.d
     /\ "resources" \in DOMAIN last.data.d
     /\ last.data.d["resources"].k # "list") =>
        last.ret = Raise(MissingResourceTypeError(last.data))

\* the fields of a class declared as a nested record class, Optional or not
RecordFields(c) == {fld \in FieldSet(c) : unwrap_optional(fld.type).t = "cls"}

\* every field of the instance declared as a record class C holds an
\* instance of C, or None when the field is Optional
TypeSafe(obj) ==
    \A fld \in RecordFields(obj.cls) :
        \/ /\ obj.f[fld.name].k = "inst"
           /\ obj.f[fld.name].cls = unwrap_optional(fld.type).c
        \/ obj.f[fld.name] = None /\ is_optional(fld.type)

\* C26: nested records are type-safe. Every instance that from_simplified
\* or load returns holds, in each field declared as a record class C, an
\* instance of C, or None when the field is Optional.
C26_NestedTypeSafe ==
    /\ (last.op = "from_simplified" /\ last.ret.ok /\ last.ret.v.k = "inst") =>
          TypeSafe(last.ret.v)
    /\ (last.op = "load" /\ last.ret.ok) =>
          \A i \in 1..Len(last.ret.v.l) : TypeSafe(last.ret.v.l[i])

\* the simplified value of a field of an instance
Simple(obj, fld) == _simplify_field(fld.type, obj.f[fld.name]).v

\* the field's simplified value is merged into the parent's map
Merged(obj, fld) == fld.extras.embedded /\ Simple(obj, fld).k = "dict"

\* C27: encode never overwrites a key. In the map encoded from an instance
\* the resource_type is the tag of the instance's class, every kept field
\* that is not merged is under its name with its own simplified value, and
\* every key of a merged component holds the component's value.
C27_NoOverwrite ==
    (last.op = "to_simplified" /\ last.ret.ok) =>
        /\ rtype[last.obj.cls] # "" =>
              last.ret.v.d["resource_type"] = VStr(rtype[last.obj.cls])
        /\ \A fld \in FieldSet(last.obj.cls) :
              IF Merged(last.obj, fld)
              THEN \A n \in DOMAIN Simple(last.obj, fld).d :
                      last.ret.v.d[n] = Simple(last.obj, fld).d[n]
              ELSE keeps_field(Simple(last.obj, fld), fld.extras) =>
                      last.ret.v.d[fld.name] = Simple(last.obj, fld)

(***************************************************************************)
(* Decorating classes again                                                *)
(***************************************************************************)
\* the decorations of the test module, and further decorations of classes
\* that are decorated already: ResOne under a tag of its own and under the
\* tag of ResTwo, ResThree under the tag of ResTwo
RegAgainPairs ==
    { <<"test.res.one", "ResOne">>, <<"test.res.two", "ResTwo">>,
      <<"test.res.three", "ResThree">>, <<"test.res.one", "FakeOne">>,
      <<"test.res.uno", "ResOne">>, <<"test.res.two", "ResOne">>,
      <<"test.res.two", "ResThree">> }

\* well-formed maps of the tags
RegLoadInputs ==
    { DataOne1, DataTwo, DataThree,
      Map2("resource_type", VStr("test.res.uno"), "zim", VStr("zoom")),
      Map2("resource_type", VStr("test.res.one"), "zzz", VInt(MaxInt)) }

NextReg ==
    \/ \E p \in RegAgainPairs : Register(p[1], p[2])
    \/ \E data \in RegLoadInputs : Load(data)
    \/ Return

SpecReg == Init /\ [][NextReg]_vars

\* C28: registry consistency. Every tag bound in the registry maps to a
\* class whose resource_type is that tag, and the load of a map whose tag is
\* bound never fails with InvalidResourceTypeError.
C28_RegistryConsistent ==
    /\ \A t \in DOMAIN registry : rtype[registry[t]] = t
    /\ (/\ last.op = "load"
        /\ last.data.d["resource_type"].s \in DOMAIN registry) =>
           (last.ret.ok \/ last.ret.exc.type # "InvalidResourceTypeError")

(***************************************************************************)
(* Decorations that collide                                                *)
(***************************************************************************)
\* decorations of a class that is decorated already, under a tag that is
\* taken
FailPairs == { <<"test.res.three", "ResOne">>, <<"test.res.two", "ResThree">> }

\* the decorator is applied to a class that is decorated already, the tag
\* being taken
Redecorate(resource_name, cls) ==
    /\ rtype[cls] # ""
    /\ resource_name \in DOMAIN registry
    /\ Register(resource_name, cls)

NextFail ==
    \/ \E p \in RegPairs : Register(p[1], p[2])
    \/ \E p \in FailPairs : Redecorate(p[1], p[2])
    \/ \E data \in RegLoadInputs : Load(data)
    \/ Return

SpecFail == Init /\ [][NextFail]_vars

\* the map is well-formed for class c: it has the required fields of c
WellFormed(c, data) ==
    \A fld \in FieldSet(c) : fld.hasdef \/ fld.name \in DOMAIN data.d

\* C29: a failed registration changes nothing. After a registration that
\* raised the collision error the contested tag is bound to another class
\* or to the same class as before, and a map of that tag that is
\* well-formed for the class the tag is bound to loads into an instance of
\* that class.
C29_FailedRegistration ==
    (last.op = "resource" /\ last.ret = Raise(KeyError)) =>
        /\ last.resource_name \in DOMAIN registry
        /\ \A data \in RegLoadInputs :
              (/\ data.d["resource_type"].s = last.resource_name
               /\ WellFormed(registry[last.resource_name], data)) =>
                  /\ load(data).ok
                  /\ load(data).v.l[1].cls = registry[last.resource_name]

\* the keys that decoding a map with class c looks up: the tag, the names
\* and alt keys of the fields, and the keys of the embedded classes, which
\* are decoded from the same map
RECURSIVE KnownKeys(_)
KnownKeys(c) ==
    (IF rtype[c] # "" THEN {"resource_type"} ELSE {})
    \cup {fld.name : fld \in FieldSet(c)}
    \cup UNION {{fld.extras.alt_keys[i] : i \in 1..Len(fld.extras.alt_keys)} :
                  fld \in FieldSet(c)}
    \cup UNION {KnownKeys(unwrap_optional(fld.type).c) :
                  fld \in {x \in FieldSet(c) :
                              x.extras.embedded /\ unwrap_optional(x.type).t = "cls"}}

\* the keys of a map that decoding it with class c does not look up
UnknownKeys(c, data) == DOMAIN data.d \ KnownKeys(c)

\* C30: unknown keys are ignored. Decoding or loading a map gives what the
\* map without any one of its unknown keys gives, and the map encoded from
\* an instance that was decoded or loaded has none of the unknown keys of
\* the input.
C30_UnknownKeys ==
    /\ (last.op = "from_simplified" /\ last.data.k = "dict") =>
          \A k \in UnknownKeys(last.cls, last.data) :
              last.ret = from_simplified(last.cls, VDict(Without(last.data.d, k)))
    /\ (/\ last.op = "load"
        /\ last.data \in ShareDocs \cup ClusterDocs \cup CustomDocs
        /\ last.data.d["resource_type"].s \in DOMAIN registry) =>
          \A k \in UnknownKeys(registry[last.data.d["resource_type"].s], last.data) :
              last.ret = load(VDict(Without(last.data.d, k)))
    /\ (last.op = "to_simplified" /\ "input" \in DOMAIN last
        /\ last.input.k = "dict" /\ last.ret.ok) =>
          \A k \in UnknownKeys(last.obj.cls, last.input) : k \notin DOMAIN last.ret.v.d

\* C30 witness: a share document with a custom_config key was loaded and
\* the map encoded from the loaded Share has no custom_config key.
C30_Witness ==
    /\ last.op = "to_simplified"
    /\ "input" \in DOMAIN last
    /\ last.via = "load"
    /\ last.input \in CustomDocs
    /\ "custom_config" \in DOMAIN last.input.d
    /\ last.obj.cls = "Share"
    /\ last.obj.f.share # None
    /\ last.ret.ok
    /\ "custom_config" \notin DOMAIN last.ret.v.d

====
